---- MODULE Spec2Model ----
(***************************************************************************)
(* CustomSemiSubmersibleDesign                                             *)
(* (src/ORBIT/phases/design/semisub_pontoon_design.py): the design phase   *)
(* as a state machine.  One instance (self) is constructed from a          *)
(* configuration, run() stores the outputs, and the properties are read.   *)
(* A second instance (other), built from the same configuration, is used   *)
(* by the specification SpecPair only.                                     *)
(*                                                                         *)
(* Numbers.  Python floats are modelled in fixed point:                    *)
(*   lengths in decimetres, volumes in dm^3 (so the 10.0 m centre column   *)
(*   is 100), masses in tonnes, costs in USD, the geometric scale factor   *)
(*   in thousandths.  Every division truncates.                            *)
(***************************************************************************)
EXTENDS Integers, FiniteSets, TLC

VARIABLES cfg, np_float, pc, self, runs, ret, first, firstOutputs, opc, other

vars == <<cfg, np_float, pc, self, runs, ret, first, firstOutputs, opc, other>>

\* How many completed run() calls the history counter runs tells apart.
MaxRuns == 2

(***************************************************************************)
(* Python dictionaries are functions over a finite set of string keys.     *)
(***************************************************************************)
NoDict == [k \in {} |-> 0]

\* dict.get(key, default)
Get(d, key, default) == IF key \in DOMAIN d THEN d[key] ELSE default

\* d[key] = value
SetItem(d, key, value) ==
    [k \in (DOMAIN d) \cup {key} |-> IF k = key THEN value ELSE d[k]]

(***************************************************************************)
(* expected_config: for every key its unit, whether the description marks  *)
(* it "(optional", and the default the description documents.              *)
(***************************************************************************)
DocSteelDensity == 8050
DocBallastMass == 0
DocTowerInterfaceMass == 0
DocSteelCostRate == 4500
DocBallastCostRate == 150

expected_config ==
    [site |-> [depth |-> [unit |-> "m", optional |-> FALSE, default |-> 0]],
     plant |-> [num_turbines |-> [unit |-> "int", optional |-> FALSE, default |-> 0]],
     turbine |-> [turbine_rating |-> [unit |-> "MW", optional |-> FALSE, default |-> 0]],
     semisubmersible_design |->
       [column_diameter |-> [unit |-> "m", optional |-> FALSE, default |-> 0],
        wall_thickness |-> [unit |-> "m", optional |-> FALSE, default |-> 0],
        column_height |-> [unit |-> "m", optional |-> FALSE, default |-> 0],
        pontoon_length |-> [unit |-> "m", optional |-> FALSE, default |-> 0],
        pontoon_width |-> [unit |-> "m", optional |-> FALSE, default |-> 0],
        pontoon_height |-> [unit |-> "m", optional |-> FALSE, default |-> 0],
        strut_diameter |-> [unit |-> "m", optional |-> FALSE, default |-> 0],
        steel_density |-> [unit |-> "kg/m^3", optional |-> TRUE, default |-> DocSteelDensity],
        ballast_mass |-> [unit |-> "tonnes", optional |-> TRUE, default |-> DocBallastMass],
        tower_interface_mass |->
            [unit |-> "tonnes", optional |-> TRUE, default |-> DocTowerInterfaceMass],
        steel_cost_rate |-> [unit |-> "$/tonne", optional |-> TRUE, default |-> DocSteelCostRate],
        ballast_cost_rate |->
            [unit |-> "$/tonne", optional |-> TRUE, default |-> DocBallastCostRate]]]

output_config ==
    [substructure |-> [mass |-> "t", unit_cost |-> "USD", towing_speed |-> "km/h"]]

RequiredKeys(section) ==
    {k \in DOMAIN expected_config[section] : ~expected_config[section][k].optional}

OptionalKeys(section) ==
    {k \in DOMAIN expected_config[section] : expected_config[section][k].optional}

(***************************************************************************)
(* DesignPhase.initialize_library and DesignPhase.validate_config          *)
(* (ORBIT/phases/design/design_phase.py, not part of the sources at hand). *)
(* The configuration handed over has its library items resolved already;   *)
(* validation lets through, unchanged, a configuration that has every      *)
(* required key of expected_config.                                        *)
(***************************************************************************)
initialize_library(config) == config

MissingKeys(config) ==
    {<<s, k>> \in (DOMAIN expected_config) \X
                   UNION {DOMAIN expected_config[t] : t \in DOMAIN expected_config} :
        /\ k \in RequiredKeys(s)
        /\ \/ s \notin DOMAIN config
           \/ k \notin DOMAIN config[s]}

validate_config(config) ==
    IF MissingKeys(config) = {}
    THEN [raised |-> "", config |-> config]
    ELSE [raised |-> "Exception", config |-> NoDict]

(***************************************************************************)
(* The configurations tried.                                               *)
(***************************************************************************)
SampleDesign ==
    [column_diameter |-> 125, wall_thickness |-> 1, column_height |-> 350,
     pontoon_length |-> 520, pontoon_width |-> 125, pontoon_height |-> 70,
     strut_diameter |-> 9,
     steel_density |-> 7850, ballast_mass |-> 1000, tower_interface_mass |-> 50,
     steel_cost_rate |-> 3000, ballast_cost_rate |-> 100, towing_speed |-> 8]

AllRequired == RequiredKeys("semisubmersible_design")

\* The keys run() and the properties look up with a default
Defaulted == OptionalKeys("semisubmersible_design") \cup {"towing_speed"}

\* Every required key with none, one, all but one or all of the defaulted
\* keys, and one design that lacks a required key.
Designs ==
    {[k \in AllRequired \cup opt |-> SampleDesign[k]] :
        opt \in {o \in SUBSET Defaulted :
                    Cardinality(o) \in {0, 1, Cardinality(Defaulted) - 1,
                                        Cardinality(Defaulted)}}}
    \cup {[k \in AllRequired \ {"column_diameter"} |-> SampleDesign[k]]}

Turbines ==
    {[turbine_rating |-> 15],
     [turbine_rating |-> 15, rotor_diameter |-> 240],
     [turbine_rating |-> 6, rotor_diameter |-> 154]}

Configs ==
    {[site |-> [depth |-> 500], plant |-> [num_turbines |-> n],
      turbine |-> t, semisubmersible_design |-> d] :
        n \in {1, 10}, t \in Turbines, d \in Designs}

(***************************************************************************)
(* __init__                                                                *)
(***************************************************************************)
ref_turbine_radius == 120

\* (new_turbine_radius / ref_turbine_radius) ** alpha with alpha = 0.72, in
\* thousandths, tabulated for the radii of Turbines:
\*   (120/120)**0.72 = 1.0,  (77/120)**0.72 = 0.72654...
PowAlpha(new_turbine_radius, ref_radius) ==
    CASE new_turbine_radius = ref_radius -> 1000
      [] new_turbine_radius = 77 /\ ref_radius = 120 -> 727

NoInstance ==
    [config |-> NoDict, _design |-> NoDict, geom_scale_factor |-> 0, _outputs |-> NoDict]

\* The constructor's outcome on a configuration: the exception it raises
\* ("" for none) and the instance it leaves.
Constructed(config0, has_np_float) ==
    LET config == initialize_library(config0)
        valid == validate_config(config)
    IN  IF valid.raised # ""
        THEN [raised |-> valid.raised, inst |-> NoInstance]
        ELSE IF ~has_np_float
        THEN [raised |-> "AttributeError", inst |-> NoInstance]
        ELSE IF "rotor_diameter" \notin DOMAIN config["turbine"]
        THEN [raised |-> "KeyError", inst |-> NoInstance]
        ELSE [raised |-> "",
              inst |->
                [config |-> valid.config,
                 _design |-> Get(valid.config, "semisubmersible_design", NoDict),
                 geom_scale_factor |->
                     PowAlpha(config["turbine"]["rotor_diameter"] \div 2,
                              ref_turbine_radius),
                 _outputs |-> NoDict]]

(***************************************************************************)
(* The volume, mass and cost properties.                                   *)
(***************************************************************************)
\* x * geom_scale_factor
Scaled(x, gsf) == (x * gsf) \div 1000

\* (np.pi / 4) * x
PiOver4(x) == (785 * x) \div 1000

bouyant_column_volume(s) ==
    LET d == Scaled(s.config["semisubmersible_design"]["column_diameter"],
                    s.geom_scale_factor)
        t == s.config["semisubmersible_design"]["wall_thickness"]
        h == Scaled(s.config["semisubmersible_design"]["column_height"],
                    s.geom_scale_factor)
    IN  PiOver4(h * d * d - (h - 2 * t) * (d - 2 * t) * (d - 2 * t))

CenterColumnDiameter == 100

center_column_volume(s) ==
    LET d == CenterColumnDiameter
        t == s.config["semisubmersible_design"]["wall_thickness"]
        h == Scaled(s.config["semisubmersible_design"]["column_height"],
                    s.geom_scale_factor)
        h2 == Scaled(s.config["semisubmersible_design"]["pontoon_height"],
                     s.geom_scale_factor)
    IN  PiOver4((h - h2) * d * d - (h - t - h2) * (d - 2 * t) * (d - 2 * t))

pontoon_volume(s) ==
    LET l == Scaled(s.config["semisubmersible_design"]["pontoon_length"],
                    s.geom_scale_factor)
        w == Scaled(s.config["semisubmersible_design"]["pontoon_width"],
                    s.geom_scale_factor)
        h == Scaled(s.config["semisubmersible_design"]["pontoon_height"],
                    s.geom_scale_factor)
        t == s.config["semisubmersible_design"]["wall_thickness"]
    IN  (h * w - (h - 2 * t) * (w - 2 * t)) * l

strut_volume(s) ==
    LET l == Scaled(s.config["semisubmersible_design"]["pontoon_length"],
                    s.geom_scale_factor)
        d == Scaled(s.config["semisubmersible_design"]["strut_diameter"],
                    s.geom_scale_factor)
    IN  PiOver4(d * d * l)

DefaultSteelDensity == 7980
KgPerTonne == 1000

\* (dens / 1000) * (volumes), the volumes in m^3 (dm^3 / 1000)
substructure_steel_mass(s) ==
    LET dens == Get(s._design, "steel_density", DefaultSteelDensity)
        volume == 3 * bouyant_column_volume(s) + center_column_volume(s)
                  + 3 * pontoon_volume(s) + 3 * strut_volume(s)
    IN  (dens * (volume \div 1000)) \div KgPerTonne

DefaultBallastMass == 2540

ballast_mass(s) == Get(s._design, "ballast_mass", DefaultBallastMass)

DefaultTowerInterfaceMass == 100

tower_interface_mass(s) ==
    Get(s._design, "tower_interface_mass", DefaultTowerInterfaceMass)

DefaultSteelCostRate == 4500

substructure_steel_cost(s) ==
    LET steel_cr == Get(s._design, "steel_cost_rate", DefaultSteelCostRate)
    IN  steel_cr * substructure_steel_mass(s)

substructure_mass(s) ==
    substructure_steel_mass(s) + ballast_mass(s) + tower_interface_mass(s)

DefaultBallastCostRate == 150

substructure_unit_cost(s) ==
    LET ballast_cr == Get(s._design, "ballast_cost_rate", DefaultBallastCostRate)
    IN  substructure_steel_cost(s) + ballast_cr * ballast_mass(s)

\* total_cost without the number of turbines
total_cost_per_unit(s) == substructure_unit_cost(s)

total_cost(s) ==
    LET num == s.config["plant"]["num_turbines"]
    IN  num * substructure_unit_cost(s)

detailed_output(s) ==
    [substructure_steel_mass |-> substructure_steel_mass(s),
     substructure_steel_cost |-> substructure_steel_cost(s),
     substructure_mass |-> substructure_mass(s),
     substructure_cost |-> substructure_unit_cost(s)]

\* design_result without its guard
design_result_unguarded(s) == [raised |-> "", val |-> s._outputs]

\* design_result: the exception raised ("" for none) and the value returned
design_result(s) ==
    IF DOMAIN s._outputs = {}
    THEN [raised |-> "Exception", val |-> NoDict]
    ELSE [raised |-> "", val |-> s._outputs]

\* run() storing the steel mass as the mass
Ran_steel_only(s) ==
    [s EXCEPT !._outputs =
        SetItem(s._outputs, "substructure",
                [mass |-> substructure_steel_mass(s),
                 unit_cost |-> substructure_unit_cost(s),
                 towing_speed |-> Get(s._design, "towing_speed", 6)])]

\* run() adding to the mass an earlier run() stored
Ran_accumulating(s) ==
    [s EXCEPT !._outputs =
        SetItem(s._outputs, "substructure",
                [mass |-> substructure_mass(s)
                          + (IF "substructure" \in DOMAIN s._outputs
                             THEN s._outputs["substructure"].mass ELSE 0),
                 unit_cost |-> substructure_unit_cost(s),
                 towing_speed |-> Get(s._design, "towing_speed", 6)])]

DefaultTowingSpeed == 6

\* The instance run() leaves
Ran(s) ==
    LET substructure ==
            [mass |-> substructure_mass(s),
             unit_cost |-> substructure_unit_cost(s),
             towing_speed |-> Get(s._design, "towing_speed", DefaultTowingSpeed)]
    IN  [s EXCEPT !._outputs = SetItem(s._outputs, "substructure", substructure)]

(***************************************************************************)
(* Reading a property: the exception raised ("" for none), the value       *)
(* returned (a number n as [value |-> n]) and the instance the read        *)
(* leaves.  No property assigns to an attribute of self.                   *)
(***************************************************************************)
Properties ==
    {"bouyant_column_volume", "center_column_volume", "pontoon_volume",
     "strut_volume", "substructure_steel_mass", "ballast_mass",
     "tower_interface_mass", "substructure_steel_cost", "substructure_mass",
     "substructure_unit_cost", "design_result", "total_cost", "detailed_output"}

Number(n) == [value |-> n]

PropertyValue(p, s) ==
    CASE p = "bouyant_column_volume" -> Number(bouyant_column_volume(s))
      [] p = "center_column_volume" -> Number(center_column_volume(s))
      [] p = "pontoon_volume" -> Number(pontoon_volume(s))
      [] p = "strut_volume" -> Number(strut_volume(s))
      [] p = "substructure_steel_mass" -> Number(substructure_steel_mass(s))
      [] p = "ballast_mass" -> Number(ballast_mass(s))
      [] p = "tower_interface_mass" -> Number(tower_interface_mass(s))
      [] p = "substructure_steel_cost" -> Number(substructure_steel_cost(s))
      [] p = "substructure_mass" -> Number(substructure_mass(s))
      [] p = "substructure_unit_cost" -> Number(substructure_unit_cost(s))
      [] p = "total_cost" -> Number(total_cost(s))
      [] p = "detailed_output" -> detailed_output(s)
      [] p = "design_result" -> design_result(s).val

\* detailed_output keeping its dictionary in self._outputs
Reading_storing(p, s) ==
    [raised |-> IF p = "design_result" THEN design_result(s).raised ELSE "",
     val |-> PropertyValue(p, s),
     inst |-> IF p = "detailed_output"
              THEN [s EXCEPT !._outputs = detailed_output(s)]
              ELSE s]

Reading(p, s) ==
    [raised |-> IF p = "design_result" THEN design_result(s).raised ELSE "",
     val |-> PropertyValue(p, s),
     inst |-> s]

(***************************************************************************)
(* The state machine.                                                      *)
(*   cfg, np_float  the configuration given to the constructor, and        *)
(*                  whether the installed numpy still has np.float         *)
(*   pc, self       "start" before the constructor, "ready" with the       *)
(*                  instance self, "raised" when the constructor raised    *)
(*   ret            the last call: its name, the exception, the value      *)
(*   runs           the run() calls completed on self (up to MaxRuns)      *)
(*   first          what total_cost and detailed_output returned when      *)
(*                  first read, and whether that was before any run()      *)
(*   firstOutputs   the outputs the first run() stored                     *)
(*   opc, other     pc and self of the second instance                     *)
(***************************************************************************)
Tracked == {"total_cost", "detailed_output"}

Init ==
    /\ cfg \in Configs
    /\ np_float \in BOOLEAN
    /\ pc = "start"
    /\ self = NoInstance
    /\ runs = 0
    /\ ret = [op |-> "", raised |-> "", val |-> NoDict]
    /\ first = [p \in Tracked |-> [seen |-> FALSE, before_run |-> FALSE, val |-> NoDict]]
    /\ firstOutputs = NoDict
    /\ opc = "start"
    /\ other = NoInstance

Construct ==
    /\ pc = "start"
    /\ LET r == Constructed(cfg, np_float)
       IN  /\ pc' = IF r.raised = "" THEN "ready" ELSE "raised"
           /\ self' = r.inst
           /\ ret' = [op |-> "__init__", raised |-> r.raised, val |-> NoDict]
    /\ UNCHANGED <<cfg, np_float, runs, first, firstOutputs, opc, other>>

Run ==
    /\ pc = "ready"
    /\ self' = Ran(self)
    /\ runs' = IF runs < MaxRuns THEN runs + 1 ELSE runs
    /\ firstOutputs' = IF runs = 0 THEN self'._outputs ELSE firstOutputs
    /\ ret' = [op |-> "run", raised |-> "", val |-> NoDict]
    /\ UNCHANGED <<cfg, np_float, pc, first, opc, other>>

Read(p) ==
    /\ pc = "ready"
    /\ LET r == Reading(p, self)
       IN  /\ self' = r.inst
           /\ ret' = [op |-> p, raised |-> r.raised, val |-> r.val]
           /\ first' = IF p \in Tracked /\ ~first[p].seen
                       THEN [first EXCEPT
                               ![p] = [seen |-> TRUE, before_run |-> (runs = 0),
                                       val |-> r.val]]
                       ELSE first
    /\ UNCHANGED <<cfg, np_float, pc, runs, firstOutputs, opc, other>>

Next ==
    \/ Construct
    \/ Run
    \/ \E p \in Properties : Read(p)

Spec == Init /\ [][Next]_vars

(***************************************************************************)
(* Two instances built from the same configuration.                        *)
(***************************************************************************)
OtherConstruct ==
    /\ opc = "start"
    /\ LET r == Constructed(cfg, np_float)
       IN  /\ opc' = IF r.raised = "" THEN "ready" ELSE "raised"
           /\ other' = r.inst
    /\ UNCHANGED <<cfg, np_float, pc, self, runs, ret, first, firstOutputs>>

OtherRun ==
    /\ opc = "ready"
    /\ other' = Ran(other)
    /\ UNCHANGED <<cfg, np_float, pc, self, runs, ret, first, firstOutputs, opc>>

NextPair ==
    \/ Construct
    \/ Run
    \/ OtherConstruct
    \/ OtherRun

SpecPair == Init /\ [][NextPair]_vars

(***************************************************************************)
(* The claims.                                                             *)
(***************************************************************************)
HasRun(s) == DOMAIN s._outputs # {}

\* C1: design_result raises as long as no run() has completed on the
\* instance and returns the stored outputs once one has; an instance that
\* has outputs keeps having outputs.
C1_RunFlagGuardsDesignResult ==
    /\ [](ret.op = "design_result" =>
            IF runs = 0
            THEN ret.raised = "Exception"
            ELSE ret.raised = "" /\ ret.val = self._outputs)
    /\ [](pc = "ready" => (HasRun(self) <=> runs > 0))
    /\ [][HasRun(self) => HasRun(self')]_vars

\* design_result has been read with success after the second run()
C1_Witness ==
    /\ ret.op = "design_result"
    /\ ret.raised = ""
    /\ runs >= 2

\* C2: what design_result returns has the one entry "substructure", with
\* the keys of output_config, the mass substructure_mass, the unit cost
\* substructure_unit_cost and the configured towing speed, 6 without one.
C2_DesignResultContents ==
    ret.op = "design_result" /\ ret.raised = "" =>
        /\ DOMAIN ret.val = {"substructure"}
        /\ DOMAIN ret.val = DOMAIN output_config
        /\ DOMAIN ret.val["substructure"] = DOMAIN output_config["substructure"]
        /\ ret.val["substructure"].mass = substructure_mass(self)
        /\ ret.val["substructure"].unit_cost = substructure_unit_cost(self)
        /\ ret.val["substructure"].towing_speed =
             IF "towing_speed" \in DOMAIN cfg["semisubmersible_design"]
             THEN cfg["semisubmersible_design"]["towing_speed"]
             ELSE 6

\* design_result has returned for a configuration without a towing speed
C2_Witness ==
    /\ ret.op = "design_result"
    /\ ret.raised = ""
    /\ "towing_speed" \notin DOMAIN cfg["semisubmersible_design"]
    /\ "ballast_mass" \in DOMAIN cfg["semisubmersible_design"]

\* The configuration with key k of semisubmersible_design set to value v
WithDesignKey(config, k, v) ==
    [config EXCEPT !["semisubmersible_design"] = SetItem(@, k, v)]

\* C3: an instance built without an optional key computes what an instance
\* built with that key at its documented default computes.
C3_OmittedKeysUseDocumentedDefaults ==
    pc = "ready" =>
        \A k \in OptionalKeys("semisubmersible_design") \ DOMAIN self._design :
            detailed_output(self) =
                detailed_output(
                    Constructed(
                        WithDesignKey(cfg, k,
                            expected_config["semisubmersible_design"][k].default),
                        np_float).inst)

\* C4: the unit cost is the steel cost plus the ballast cost plus the cost of
\* the other mass in substructure_mass: where substructure_mass holds more
\* than steel and ballast, the unit cost holds more than their costs.
C4_EveryMassIsCosted ==
    pc = "ready" =>
        LET steel_cost == Get(self._design, "steel_cost_rate", 4500)
                          * substructure_steel_mass(self)
            ballast_cost == Get(self._design, "ballast_cost_rate", 150)
                            * ballast_mass(self)
            other_mass == substructure_mass(self)
                          - substructure_steel_mass(self) - ballast_mass(self)
            other_cost == substructure_unit_cost(self) - steel_cost - ballast_cost
        IN  /\ other_cost >= 0
            /\ other_mass > 0 => other_cost > 0

\* C5: total_cost returns num_turbines times substructure_unit_cost, which
\* after run() is num_turbines times the unit_cost of design_result.
C5_TotalCostIsTurbinesTimesUnitCost ==
    ret.op = "total_cost" =>
        /\ ret.raised = ""
        /\ ret.val.value =
             cfg["plant"]["num_turbines"] * substructure_unit_cost(self)
        /\ runs > 0 =>
             ret.val.value =
               cfg["plant"]["num_turbines"] * self._outputs["substructure"].unit_cost

\* total_cost has been read after run() on a plant of several turbines
C5_Witness ==
    /\ ret.op = "total_cost"
    /\ runs > 0
    /\ cfg["plant"]["num_turbines"] > 1

\* C6: two instances built from the same configuration agree on whether
\* the constructor raised, on total_cost, on detailed_output and, once both
\* have run, on design_result; and every later run() leaves the outputs the
\* first run() stored.
C6_Deterministic ==
    /\ pc # "start" /\ opc # "start" => pc = opc
    /\ pc = "ready" /\ opc = "ready" =>
        /\ total_cost(self) = total_cost(other)
        /\ detailed_output(self) = detailed_output(other)
        /\ HasRun(self) /\ HasRun(other) =>
             design_result(self) = design_result(other)
    /\ runs > 0 => self._outputs = firstOutputs

\* both instances have run, the first one twice
C6_Witness ==
    /\ pc = "ready"
    /\ opc = "ready"
    /\ runs = 2
    /\ HasRun(other)

\* C7: substructure_mass is the steel mass plus the ballast mass.
C7_MassIsSteelPlusBallast ==
    pc = "ready" =>
        substructure_mass(self) = substructure_steel_mass(self) + ballast_mass(self)

\* C8: with np.float available, the constructor raises nothing on a
\* configuration that has every required key of expected_config.
C8_RequiredKeysSuffice ==
    np_float /\ ret.op = "__init__" /\ MissingKeys(cfg) = {} => ret.raised = ""

\* C9: a step that reads a property leaves the instance and the count of
\* runs as they were, only run() changes the stored outputs, and total_cost
\* and detailed_output return what they returned when first read.
C9_ReadsLeaveInstanceUnchanged ==
    /\ [][ret'.op \in Properties => self' = self /\ runs' = runs]_vars
    /\ [][self'._outputs # self._outputs => ret'.op = "run"]_vars
    /\ [](ret.op \in Tracked => first[ret.op].seen /\ ret.val = first[ret.op].val)

\* detailed_output read after run(), having been read before run() too
C9_Witness ==
    /\ ret.op = "detailed_output"
    /\ runs > 0
    /\ first["detailed_output"].before_run

====
